---- MODULE Spec2Model ----
(***************************************************************************)
(* Model of hydrogram's filter engine (src/hydrogram/filters.py): the      *)
(* Invert/And/Or combinators, the command and regex filters with their     *)
(* update annotations, the user and chat membership filters with the set   *)
(* methods they inherit, and some attribute filters, evaluated step by     *)
(* step against one update.                                                *)
(*                                                                         *)
(* Python values returned by filters are the strings "True", "False" and   *)
(* "None".  A Python str is a sequence of one-character strings; an        *)
(* optional str is a record [none, s].                                     *)
(***************************************************************************)
EXTENDS Integers, Sequences, FiniteSets, TLC

VARIABLES flt, update, orig, me, phase, stack, ret, log, result, first, search

vars == <<flt, update, orig, me, phase, stack, ret, log, result, first, search>>

-----------------------------------------------------------------------------
(* Bounds of the model.                                                    *)

\* longest enumerated argument tail appended to a command head
MaxTail == 4
\* most combinators (~, &, |) applied when a filter tree is built
MaxOps == 2
\* longest enumerated text given to the regex filter
MaxRegexText == 3
\* most set operations applied to a membership filter after construction
MaxSetOps == 2
\* most messages the server holds for a search
MaxStored == 130
\* size of the chunks of a server that answers with less than was asked
ShortChunk == 60

\* min(100, total) in search_messages
ChunkSize == 100
\* (1 << 31) - 1
NoLimit == 2147483647

-----------------------------------------------------------------------------
(* Python values and strings.                                              *)

PyTrue == "True"
PyFalse == "False"
PyNone == "None"

\* truthiness of the values filters return (bool(x), `not x`, `if x`)
Truthy(v) == v = PyTrue

PyBool(b) == IF b THEN PyTrue ELSE PyFalse

NoStr == [none |-> TRUE, s |-> <<>>]
Str(s) == [none |-> FALSE, s |-> s]

\* truthiness of an optional str: None and "" are falsy
StrTruthy(o) == ~o.none /\ Len(o.s) > 0

\* a or b on optional strs
StrOr(a, b) == IF StrTruthy(a) THEN a ELSE b

\* \s of Python's re on str
IsSpace(c) == c \in {" ", "\n", "\t", "\r"}

Quotes == {"\"", "'"}

\* str.lower() / re.IGNORECASE folding, one character
LowerChar(c) ==
    CASE c = "A" -> "a"
      [] c = "B" -> "b"
      [] c = "E" -> "e"
      [] c = "M" -> "m"
      [] c = "S" -> "s"
      [] c = "X" -> "x"
      [] OTHER -> c

Lower(s) == [i \in 1..Len(s) |-> LowerChar(s[i])]

\* s[i:] with a 1-based i
From(s, i) == IF i > Len(s) THEN <<>> ELSE SubSeq(s, i, Len(s))

\* str.startswith
StartsWith(s, p) == Len(p) <= Len(s) /\ SubSeq(s, 1, Len(p)) = p

LitAtExact(s, i, lit, cs) ==
    /\ i + Len(lit) - 1 <= Len(s)
    /\ \A k \in 1..Len(lit) : s[i + k - 1] = lit[k]

\* the literal lit matches s at position i, under re.IGNORECASE unless cs
LitAt(s, i, lit, cs) ==
    /\ i + Len(lit) - 1 <= Len(s)
    /\ \A k \in 1..Len(lit) :
          IF cs THEN s[i + k - 1] = lit[k]
          ELSE LowerChar(s[i + k - 1]) = LowerChar(lit[k])

-----------------------------------------------------------------------------
(* command: the two regular expressions built from (cmd, username), the    *)
(* argument scanner command_re, and the filter function.                   *)

\* where (?:{username})? can end when it starts at e0
UsernameEnds(s, e0, username, cs) ==
    IF LitAt(s, e0, username, cs) THEN {e0 + Len(username)} ELSE {}

\* where "@" followed by {username} can end when it starts at e0
AtUsernameEnds(s, e0, username, cs) ==
    IF e0 <= Len(s) /\ s[e0] = "@" /\ LitAt(s, e0 + 1, username, cs)
    THEN {e0 + 1 + Len(username)} ELSE {}

\* where (?:@?{username})? can end when it starts at e0: "@" + username,
\* username alone (the "@" is optional), or nothing
GroupEnds(s, e0, username, cs) ==
    {e0} \cup AtUsernameEnds(s, e0, username, cs) \cup UsernameEnds(s, e0, username, cs)

\* re.match(rf"^(?:{cmd}(?:@?{username})?)(?:\s|$)", s, flags)
command_match(cmd, username, cs, s) ==
    /\ LitAt(s, 1, cmd, cs)
    /\ \E e \in GroupEnds(s, Len(cmd) + 1, username, cs) :
          e = Len(s) + 1 \/ (e <= Len(s) /\ IsSpace(s[e]))

\* the greedy end of (?:@?{username})? started at e0
GreedyGroupEnd(s, e0, username, cs) ==
    IF e0 <= Len(s) /\ s[e0] = "@" /\ LitAt(s, e0 + 1, username, cs)
    THEN e0 + 1 + Len(username)
    ELSE IF LitAt(s, e0, username, cs) THEN e0 + Len(username) ELSE e0

\* re.sub(rf"{cmd}(?:@?{username})?\s?", "", s, count=1, flags): the
\* leftmost occurrence is removed
command_sub(cmd, username, cs, s) ==
    LET occ == {i \in 1..(Len(s) + 1) : LitAt(s, i, cmd, cs)}
    IN  IF occ = {} THEN s
        ELSE LET i == CHOOSE k \in occ : \A m \in occ : k <= m
                 e1 == GreedyGroupEnd(s, i + Len(cmd), username, cs)
                 e2 == IF e1 <= Len(s) /\ IsSpace(s[e1]) THEN e1 + 1 ELSE e1
             IN  SubSeq(s, 1, i - 1) \o From(s, e2)

\* (["'])(.*?)(?<!\\)\1 with the opening quote at i and .*? having taken
\* i+1..j-1: the index of the closing quote, or 0 when the branch fails
RECURSIVE LazyClose(_, _, _)
LazyClose(s, i, j) ==
    IF j > Len(s) THEN 0
    ELSE IF s[j] = s[i] /\ s[j - 1] # "\\" THEN j
    ELSE IF s[j] = "\n" THEN 0
    ELSE LazyClose(s, i, j + 1)

\* (\S+) started at i: the index of the last character of the run
RECURSIVE RunEnd(_, _)
RunEnd(s, i) ==
    IF i + 1 <= Len(s) /\ ~IsSpace(s[i + 1]) THEN RunEnd(s, i + 1) ELSE i

\* command_re.finditer(s) from position i: the matches in order, each with
\* group(2) and group(3) as optional strs
RECURSIVE command_re_finditer(_, _)
command_re_finditer(s, i) ==
    IF i > Len(s) THEN <<>>
    ELSE LET close == IF s[i] \in Quotes THEN LazyClose(s, i, i + 1) ELSE 0
         IN  IF close > 0
             THEN <<[g2 |-> Str(SubSeq(s, i + 1, close - 1)), g3 |-> NoStr]>>
                     \o command_re_finditer(s, close + 1)
             ELSE IF ~IsSpace(s[i])
             THEN <<[g2 |-> NoStr, g3 |-> Str(SubSeq(s, i, RunEnd(s, i)))]>>
                     \o command_re_finditer(s, RunEnd(s, i) + 1)
             ELSE command_re_finditer(s, i + 1)

\* re.sub(r"\\([\"'])", r"\1", t)
RECURSIVE Unescape(_)
Unescape(t) ==
    IF Len(t) = 0 THEN <<>>
    ELSE IF Len(t) >= 2 /\ t[1] = "\\" /\ t[2] \in Quotes
    THEN <<t[2]>> \o Unescape(From(t, 3))
    ELSE <<t[1]>> \o Unescape(From(t, 2))

\* [re.sub(...) for m in command_re.finditer(without_command)] with
\* m.group(2) or m.group(3) or ""
CommandArgs(without_command) ==
    LET ms == command_re_finditer(without_command, 1)
    IN  [k \in 1..Len(ms) |-> Unescape(StrOr(StrOr(ms[k].g2, ms[k].g3), Str(<<>>)).s)]

NoAnnot == [none |-> TRUE, v |-> <<>>]
Annot(v) == [none |-> FALSE, v |-> v]

Return(v, u) == [kind |-> "value", v |-> v, update |-> u]
Raise(e, u) == [kind |-> "raise", v |-> e, update |-> u]

\* client.me.username or ""
UsernameOrEmpty == IF me.username.none THEN <<>> ELSE me.username.s

\* the (prefix, cmd) pairs of the two nested loops that reach `return True`
CommandHits(f, text, pseq, cseq) ==
    {h \in (1..Len(pseq)) \X (1..Len(cseq)) :
        /\ StartsWith(text, pseq[h[1]])
        /\ command_match(cseq[h[2]], UsernameOrEmpty, f.case_sensitive,
                         From(text, Len(pseq[h[1]]) + 1))}

\* command.func, with flt.prefixes iterated in the order pseq and
\* flt.commands in the order cseq
CommandFunc(f, m, pseq, cseq) ==
    IF m.kind # "Message" THEN Raise("AttributeError", m)
    ELSE
    LET text == StrOr(m.text, m.caption)
        reset == [m EXCEPT !.command = NoAnnot]
    IN  IF ~StrTruthy(text) THEN Return(PyFalse, reset)
        ELSE LET hits == CommandHits(f, text.s, pseq, cseq)
             IN  IF hits = {} THEN Return(PyFalse, reset)
                 ELSE LET h == CHOOSE a \in hits : \A b \in hits :
                                   a[1] < b[1] \/ (a[1] = b[1] /\ a[2] <= b[2])
                          cmd == cseq[h[2]]
                          without_prefix == From(text.s, Len(pseq[h[1]]) + 1)
                          without_command ==
                              command_sub(cmd, UsernameOrEmpty, f.case_sensitive,
                                          without_prefix)
                      IN  Return(PyTrue,
                                 [m EXCEPT !.command =
                                     Annot(<<cmd>> \o CommandArgs(without_command))])

-----------------------------------------------------------------------------
(* regex: a compiled pattern is a character class under "+" or "*",        *)
(* [cls |-> S, star |-> b]; a match object is its span <<start, end>>.     *)

\* how many characters of the class follow the 0-based position i
RECURSIVE ClassRun(_, _, _)
ClassRun(p, s, i) ==
    IF i + 1 <= Len(s) /\ s[i + 1] \in p.cls THEN 1 + ClassRun(p, s, i + 1) ELSE 0

\* flt.p.finditer(value) from the 0-based position i: the spans of the
\* non-overlapping matches, left to right
RECURSIVE PatternFinditer(_, _, _)
PatternFinditer(p, s, i) ==
    IF i > Len(s) THEN <<>>
    ELSE LET n == ClassRun(p, s, i)
         IN  IF n > 0 THEN <<(<<i, i + n>>)>> \o PatternFinditer(p, s, i + n)
             ELSE IF p.star THEN <<(<<i, i>>)>> \o PatternFinditer(p, s, i + 1)
             ELSE PatternFinditer(p, s, i + 1)

\* list(...) or None
ListOrNone(l) == IF Len(l) > 0 THEN Annot(l) ELSE NoAnnot

\* bool(update.matches)
AnnotTruthy(a) == ~a.none /\ Len(a.v) > 0

SilentRegex(f, u) ==
    LET value == CASE u.kind = "Message" -> StrOr(u.text, u.caption)
                   [] u.kind = "CallbackQuery" -> u.data
                   [] u.kind = "InlineQuery" -> u.query
                   [] OTHER -> NoStr
        after == IF StrTruthy(value)
                 THEN [u EXCEPT !.matches = ListOrNone(PatternFinditer(f.p, value.s, 0))]
                 ELSE u
    IN  Return(PyBool(AnnotTruthy(after.matches)), after)

TextOnlyRegex(f, u) ==
    IF u.kind \notin {"Message", "CallbackQuery", "InlineQuery"}
    THEN Raise("ValueError", u)
    ELSE LET value == CASE u.kind = "Message" -> u.text
                        [] u.kind = "CallbackQuery" -> u.data
                        [] u.kind = "InlineQuery" -> u.query
             after == IF StrTruthy(value)
                      THEN [u EXCEPT !.matches = ListOrNone(PatternFinditer(f.p, value.s, 0))]
                      ELSE u
         IN  Return(PyBool(AnnotTruthy(after.matches)), after)

RegexReadsBefore(f, u) ==
    IF u.kind \notin {"Message", "CallbackQuery", "InlineQuery"}
    THEN Raise("ValueError", u)
    ELSE LET value == CASE u.kind = "Message" -> StrOr(u.text, u.caption)
                        [] u.kind = "CallbackQuery" -> u.data
                        [] u.kind = "InlineQuery" -> u.query
             after == IF StrTruthy(value)
                      THEN [u EXCEPT !.matches = ListOrNone(PatternFinditer(f.p, value.s, 0))]
                      ELSE u
         IN  Return(PyBool(AnnotTruthy(u.matches)), after)

\* regex.func
RegexFunc(f, u) ==
    IF u.kind \notin {"Message", "CallbackQuery", "InlineQuery"}
    THEN Raise("ValueError", u)
    ELSE LET value == CASE u.kind = "Message" -> StrOr(u.text, u.caption)
                        [] u.kind = "CallbackQuery" -> u.data
                        [] u.kind = "InlineQuery" -> u.query
             after == IF StrTruthy(value)
                      THEN [u EXCEPT !.matches = ListOrNone(PatternFinditer(f.p, value.s, 0))]
                      ELSE u
         IN  Return(PyBool(AnnotTruthy(after.matches)), after)

-----------------------------------------------------------------------------
(* Attribute filters and the user membership filter.                       *)

\* outgoing_filter: the raw field; only a Message has it
outgoing_filter(m) ==
    IF m.kind # "Message" THEN Raise("AttributeError", m)
    ELSE Return(m.outgoing, m)

PrivateTypes == {"PRIVATE", "BOT"}

\* private_filter: the chat is m.chat or m.message.chat
private_filter(m) ==
    CASE m.kind = "Message" ->
            Return(PyBool(~m.chat.none /\ m.chat.type \in PrivateTypes), m)
      [] m.kind = "CallbackQuery" ->
            IF ~m.has_message THEN Raise("AttributeError", m)
            ELSE Return(PyBool(~m.chat.none /\ m.chat.type \in PrivateTypes), m)
      [] OTHER -> Raise("ValueError", m)

GroupTypes == {"GROUP", "SUPERGROUP"}

AnyGroupOrChannel(m) ==
    CASE m.kind = "Message" ->
            Return(PyBool(~m.chat.none /\ m.chat.type \in GroupTypes \cup {"CHANNEL"}), m)
      [] m.kind = "CallbackQuery" ->
            IF ~m.has_message THEN Raise("AttributeError", m)
            ELSE Return(PyBool(~m.chat.none /\ m.chat.type \in GroupTypes \cup {"CHANNEL"}), m)
      [] OTHER -> Raise("ValueError", m)

\* group_filter
group_filter(m) ==
    CASE m.kind = "Message" ->
            Return(PyBool(~m.chat.none /\ m.chat.type \in GroupTypes), m)
      [] m.kind = "CallbackQuery" ->
            IF ~m.has_message THEN Raise("AttributeError", m)
            ELSE Return(PyBool(~m.chat.none /\ m.chat.type \in GroupTypes), m)
      [] OTHER -> Raise("ValueError", m)

\* channel_filter
channel_filter(m) ==
    CASE m.kind = "Message" ->
            Return(PyBool(~m.chat.none /\ m.chat.type = "CHANNEL"), m)
      [] m.kind = "CallbackQuery" ->
            IF ~m.has_message THEN Raise("AttributeError", m)
            ELSE Return(PyBool(~m.chat.none /\ m.chat.type = "CHANNEL"), m)
      [] OTHER -> Raise("ValueError", m)

\* me_filter: is_self of the sender or, without a sender, the outgoing
\* flag when the update has one
me_filter(m) ==
    IF m.kind = "Poll" THEN Raise("AttributeError", m)
    ELSE IF ~m.from_user.none THEN Return(PyBool(Truthy(m.from_user.is_self)), m)
    ELSE IF m.kind = "Message" THEN Return(PyBool(Truthy(m.outgoing)), m)
    ELSE Return(PyFalse, m)

\* linked_channel_filter: only a Message has forward_from_chat
linked_channel_filter(m) ==
    IF m.kind # "Message" THEN Raise("AttributeError", m)
    ELSE Return(PyBool(~m.forward_from_chat.none /\ m.from_user.none), m)

\* media_filter: the media attribute alone decides
media_filter(m) ==
    IF m.kind # "Message" THEN Raise("AttributeError", m)
    ELSE Return(PyBool(m.media # PyNone), m)

Me == <<"m", "e">>
Self == <<"s", "e", "l", "f">>

\* an element of a membership set: an int or a str
Id(n) == [int |-> TRUE, n |-> n, s |-> <<>>]
Name(s) == [int |-> FALSE, n |-> 0, s |-> s]

\* str.strip("@"): every "@" at either end goes
RECURSIVE StripAt(_)
StripAt(s) ==
    IF Len(s) > 0 /\ s[1] = "@" THEN StripAt(Tail(s))
    ELSE IF Len(s) > 0 /\ s[Len(s)] = "@" THEN StripAt(SubSeq(s, 1, Len(s) - 1))
    ELSE s

\* "me" if u in {"me", "self"} else u.lower().strip("@") if isinstance(u, str) else u
Normalized(u) ==
    IF ~u.int /\ u.s \in {Me, Self} THEN Name(Me)
    ELSE IF ~u.int THEN Name(StripAt(Lower(u.s)))
    ELSE u

\* the set user.__init__ and chat.__init__ hand to set.__init__; the
\* argument is [k |-> "None"], [k |-> "one", e |-> u] or [k |-> "list", l |-> us]
Members(arg) ==
    LET l == CASE arg.k = "None" -> <<>>
               [] arg.k = "one" -> <<arg.e>>
               [] arg.k = "list" -> arg.l
    IN  {Normalized(l[i]) : i \in 1..Len(l)}

UserCallAsGiven(f, m) ==
    IF m.kind = "Poll" THEN Raise("AttributeError", m)
    ELSE IF m.from_user.none THEN Return(PyNone, m)
    ELSE IF Id(m.from_user.id) \in f.items THEN Return(PyTrue, m)
    ELSE IF StrTruthy(m.from_user.username) /\ Name(m.from_user.username.s) \in f.items
    THEN Return(PyTrue, m)
    ELSE IF Name(Me) \in f.items THEN Return(m.from_user.is_self, m)
    ELSE Return(PyFalse, m)

\* user.__call__: `from_user and (a or b or c)` keeps the operand's value
UserCall(f, m) ==
    IF m.kind = "Poll" THEN Raise("AttributeError", m)
    ELSE IF m.from_user.none THEN Return(PyNone, m)
    ELSE IF Id(m.from_user.id) \in f.items THEN Return(PyTrue, m)
    ELSE IF StrTruthy(m.from_user.username) /\ Name(Lower(m.from_user.username.s)) \in f.items
    THEN Return(PyTrue, m)
    ELSE IF Name(Me) \in f.items THEN Return(m.from_user.is_self, m)
    ELSE Return(PyFalse, m)

ChatCallAnySender(f, m) ==
    IF m.kind # "Message" THEN Raise("AttributeError", m)
    ELSE IF m.chat.none THEN Return(PyNone, m)
    ELSE IF Id(m.chat.id) \in f.items THEN Return(PyTrue, m)
    ELSE IF StrTruthy(m.chat.username) /\ Name(Lower(m.chat.username.s)) \in f.items
    THEN Return(PyTrue, m)
    ELSE IF Name(Me) \notin f.items THEN Return(PyFalse, m)
    ELSE IF m.from_user.none THEN Return(PyNone, m)
    ELSE Return(PyBool(~Truthy(m.outgoing)), m)

\* chat.__call__: `chat and (a or b or ("me" in self and from_user and
\* from_user.is_self and not outgoing))`
ChatCall(f, m) ==
    IF m.kind # "Message" THEN Raise("AttributeError", m)
    ELSE IF m.chat.none THEN Return(PyNone, m)
    ELSE IF Id(m.chat.id) \in f.items THEN Return(PyTrue, m)
    ELSE IF StrTruthy(m.chat.username) /\ Name(Lower(m.chat.username.s)) \in f.items
    THEN Return(PyTrue, m)
    ELSE IF Name(Me) \notin f.items THEN Return(PyFalse, m)
    ELSE IF m.from_user.none THEN Return(PyNone, m)
    ELSE IF ~Truthy(m.from_user.is_self) THEN Return(m.from_user.is_self, m)
    ELSE Return(PyBool(~Truthy(m.outgoing)), m)

-----------------------------------------------------------------------------
(* Filter objects.  A filter is a record with an op field; a combinator    *)
(* holds its children in base and other.                                   *)

InvertFilter(base) == [op |-> "invert", base |-> base]
AndFilter(base, other) == [op |-> "and", base |-> base, other |-> other]
OrFilter(base, other) == [op |-> "or", base |-> base, other |-> other]

Combinators == {"invert", "and", "or"}

\* inspect.iscoroutinefunction(f.__call__): the combinators, user and chat define
\* `async def __call__`; a filter made by create() has a plain function
IsCoroutine(f) == f.op \in Combinators \cup {"user", "chat"}

\* how a combinator invokes a child: awaited, or run in the executor
Mode(f) == IF IsCoroutine(f) THEN "await" ELSE "executor"

\* the node of the tree f at a path of 1 (base) and 2 (other)
RECURSIVE Sub(_, _)
Sub(f, path) ==
    IF Len(path) = 0 THEN f
    ELSE Sub(IF Head(path) = 1 THEN f.base ELSE f.other, Tail(path))

\* the number of combinators in the tree f
RECURSIVE Ops(_)
Ops(f) ==
    CASE f.op = "invert" -> 1 + Ops(f.base)
      [] f.op \in {"and", "or"} -> 1 + Ops(f.base) + Ops(f.other)
      [] OTHER -> 0

\* the paths of the nodes of f
RECURSIVE Paths(_)
Paths(f) ==
    CASE f.op = "invert" -> {<<>>} \cup {<<1>> \o q : q \in Paths(f.base)}
      [] f.op \in {"and", "or"} ->
            {<<>>} \cup {<<1>> \o q : q \in Paths(f.base)}
                   \cup {<<2>> \o q : q \in Paths(f.other)}
      [] OTHER -> {<<>>}

command_no_sentinel(commands, prefixes, case_sensitive) ==
    LET plist == CASE prefixes.k = "None" -> <<>>
                   [] prefixes.k = "str" -> <<prefixes.s>>
                   [] prefixes.k = "list" -> prefixes.l
    IN  [op |-> "command",
         commands |-> {IF case_sensitive THEN commands[i] ELSE Lower(commands[i]) :
                          i \in 1..Len(commands)},
         prefixes |-> {plist[i] : i \in 1..Len(plist)},
         case_sensitive |-> case_sensitive]

\* command(commands, prefixes, case_sensitive): commands is a list of strs,
\* prefixes is [k |-> "None"], [k |-> "str", s |-> p] or [k |-> "list", l |-> ps]
command(commands, prefixes, case_sensitive) ==
    LET plist == CASE prefixes.k = "None" -> <<>>
                   [] prefixes.k = "str" -> <<prefixes.s>>
                   [] prefixes.k = "list" -> prefixes.l
    IN  [op |-> "command",
         commands |-> {IF case_sensitive THEN commands[i] ELSE Lower(commands[i]) :
                          i \in 1..Len(commands)},
         prefixes |-> IF Len(plist) > 0 THEN {plist[i] : i \in 1..Len(plist)}
                      ELSE {<<>>},
         case_sensitive |-> case_sensitive]

PNone == [k |-> "None"]
PStr(s) == [k |-> "str", s |-> s]
PList(l) == [k |-> "list", l |-> l]

\* regex(pattern): the compiled pattern is kept in p
regex(pattern) == [op |-> "regex", p |-> pattern]

POne(e) == [k |-> "one", e |-> e]

\* user(users): the filter is the set of the normalised elements
user(users) == [op |-> "user", items |-> Members(users)]

\* chat(chats)
chat(chats) == [op |-> "chat", items |-> Members(chats)]

outgoing == [op |-> "outgoing"]
private == [op |-> "private"]
group == [op |-> "group"]
channel == [op |-> "channel"]
linked_channel == [op |-> "linked_channel"]
media == [op |-> "media"]
\* filters.me (me names the client's own account here)
filters_me == [op |-> "me"]

\* the orders in which a set can be iterated
Orders(S) ==
    {q \in [1..Cardinality(S) -> S] : \A i, j \in 1..Cardinality(S) : q[i] = q[j] => i = j}

-----------------------------------------------------------------------------
(* One evaluation of the filter flt against update, as a stack of frames:  *)
(* a frame is a __call__ in progress, pc tells which await it is at.       *)

Frame(path) == [path |-> path, pc |-> "call", x |-> PyNone]

NoRet == [kind |-> "none", v |-> ""]

\* no search_messages generator exists
NoSearch == [pc |-> "none"]
Value(v) == [kind |-> "value", v |-> v]

Top == stack[Len(stack)]
Node == Sub(flt, Top.path)
Pop == SubSeq(stack, 1, Len(stack) - 1)

Running == phase = "eval" /\ Len(stack) > 0

Event(ev, path, val) == [ev |-> ev, path |-> path, val |-> val]

CallSwapped(k, pc, x) ==
    LET child == Top.path \o <<IF Node.op = "invert" THEN k ELSE 3 - k>>
    IN  /\ stack' = Append([stack EXCEPT ![Len(stack)] = [@ EXCEPT !.pc = pc, !.x = x]],
                           Frame(child))
        /\ ret' = NoRet
        /\ log' = Append(log, Event("call", child, Mode(Sub(flt, child))))
        /\ UNCHANGED <<flt, update, orig, me, phase, result, first, search>>

\* the frame awaits child k: push the child's frame
CallChild(k, pc, x) ==
    LET child == Top.path \o <<k>>
    IN  /\ stack' = Append([stack EXCEPT ![Len(stack)] = [@ EXCEPT !.pc = pc, !.x = x]],
                           Frame(child))
        /\ ret' = NoRet
        /\ log' = Append(log, Event("call", child, Mode(Sub(flt, child))))
        /\ UNCHANGED <<flt, update, orig, me, phase, result, first, search>>

\* the frame returns v to its caller
ReturnValue(v) ==
    /\ stack' = Pop
    /\ ret' = Value(v)
    /\ log' = Append(log, Event("ret", Top.path, v))
    /\ UNCHANGED <<flt, update, orig, me, phase, result, first, search>>

\* a leaf's function ran to its end r
LeafDone(r) ==
    /\ stack' = Pop
    /\ ret' = [kind |-> r.kind, v |-> r.v]
    /\ update' = r.update
    /\ log' = Append(log, Event(IF r.kind = "raise" THEN "raise" ELSE "ret", Top.path, r.v))
    /\ UNCHANGED <<flt, orig, me, phase, result, first, search>>

KeepValue(x) == x

\* InvertFilter.__call__: `return not x`
InvertResult(x) == PyBool(~Truthy(x))

NeverShort(x) == FALSE

\* AndFilter.__call__: `if not x: return False`
AndShort(x) == ~Truthy(x)

LeftValue(x, y) == x

\* AndFilter.__call__: `return x and y`
AndResult(x, y) == IF Truthy(x) THEN y ELSE x

NeverShortOr(x) == FALSE

\* OrFilter.__call__: `if x: return True`
OrShort(x) == Truthy(x)

\* OrFilter.__call__: `return x or y`
OrResult(x, y) == IF Truthy(x) THEN x ELSE y

InvertCall ==
    /\ Running /\ Node.op = "invert" /\ Top.pc = "call"
    /\ CallChild(1, "base", PyNone)

InvertReturn ==
    /\ Running /\ Node.op = "invert" /\ Top.pc = "base" /\ ret.kind = "value"
    /\ ReturnValue(InvertResult(ret.v))

AndCallBase ==
    /\ Running /\ Node.op = "and" /\ Top.pc = "call"
    /\ CallChild(1, "base", PyNone)

AndShortCircuit ==
    /\ Running /\ Node.op = "and" /\ Top.pc = "base" /\ ret.kind = "value"
    /\ AndShort(ret.v)
    /\ ReturnValue(PyFalse)

AndCallOther ==
    /\ Running /\ Node.op = "and" /\ Top.pc = "base" /\ ret.kind = "value"
    /\ ~AndShort(ret.v)
    /\ CallChild(2, "other", ret.v)

AndReturn ==
    /\ Running /\ Node.op = "and" /\ Top.pc = "other" /\ ret.kind = "value"
    /\ ReturnValue(AndResult(Top.x, ret.v))

OrCallBase ==
    /\ Running /\ Node.op = "or" /\ Top.pc = "call"
    /\ CallChild(1, "base", PyNone)

OrShortCircuit ==
    /\ Running /\ Node.op = "or" /\ Top.pc = "base" /\ ret.kind = "value"
    /\ OrShort(ret.v)
    /\ ReturnValue(PyTrue)

OrCallOther ==
    /\ Running /\ Node.op = "or" /\ Top.pc = "base" /\ ret.kind = "value"
    /\ ~OrShort(ret.v)
    /\ CallChild(2, "other", ret.v)

OrReturn ==
    /\ Running /\ Node.op = "or" /\ Top.pc = "other" /\ ret.kind = "value"
    /\ ReturnValue(OrResult(Top.x, ret.v))

\* an exception raised by an awaited child leaves the combinator's __call__
PropagateError ==
    /\ Running /\ Node.op \in Combinators /\ Top.pc \in {"base", "other"}
    /\ ret.kind = "raise"
    /\ stack' = Pop
    /\ log' = Append(log, Event("raise", Top.path, ret.v))
    /\ UNCHANGED <<flt, update, orig, me, phase, ret, result, first, search>>

CommandCall ==
    /\ Running /\ Node.op = "command" /\ Top.pc = "call"
    /\ \E pseq \in Orders(Node.prefixes), cseq \in Orders(Node.commands) :
          LeafDone(CommandFunc(Node, update, pseq, cseq))

RegexCall ==
    /\ Running /\ Node.op = "regex" /\ Top.pc = "call"
    /\ LeafDone(RegexFunc(Node, update))

UserFilterCall ==
    /\ Running /\ Node.op = "user" /\ Top.pc = "call"
    /\ LeafDone(UserCall(Node, update))

ChatFilterCall ==
    /\ Running /\ Node.op = "chat" /\ Top.pc = "call"
    /\ LeafDone(ChatCall(Node, update))

OutgoingCall ==
    /\ Running /\ Node.op = "outgoing" /\ Top.pc = "call"
    /\ LeafDone(outgoing_filter(update))

PrivateCall ==
    /\ Running /\ Node.op = "private" /\ Top.pc = "call"
    /\ LeafDone(private_filter(update))

GroupCall ==
    /\ Running /\ Node.op = "group" /\ Top.pc = "call"
    /\ LeafDone(group_filter(update))

ChannelCall ==
    /\ Running /\ Node.op = "channel" /\ Top.pc = "call"
    /\ LeafDone(channel_filter(update))

MediaCall ==
    /\ Running /\ Node.op = "media" /\ Top.pc = "call"
    /\ LeafDone(media_filter(update))

MeCall ==
    /\ Running /\ Node.op = "me" /\ Top.pc = "call"
    /\ LeafDone(me_filter(update))

LinkedChannelCall ==
    /\ Running /\ Node.op = "linked_channel" /\ Top.pc = "call"
    /\ LeafDone(linked_channel_filter(update))

\* the handler's check: the filter is invoked on (client, update)
Dispatch ==
    /\ phase = "build"
    /\ phase' = "eval"
    /\ stack' = <<Frame(<<>>)>>
    /\ log' = Append(log, Event("call", <<>>, Mode(flt)))
    /\ UNCHANGED <<flt, update, orig, me, ret, result, first, search>>

\* the outermost __call__ has returned or raised
Finish ==
    /\ phase = "eval" /\ Len(stack) = 0 /\ ret.kind # "none"
    /\ phase' = "done"
    /\ result' = ret
    /\ ret' = NoRet
    /\ UNCHANGED <<flt, update, orig, me, stack, log, first, search>>

\* the handler's check is made once more on the same filter and update
Reevaluate ==
    /\ phase = "done" /\ first = NoRet
    /\ first' = result
    /\ result' = NoRet
    /\ phase' = "eval"
    /\ stack' = <<Frame(<<>>)>>
    /\ log' = <<Event("call", <<>>, Mode(flt))>>
    /\ UNCHANGED <<flt, update, orig, me, ret, search>>

-----------------------------------------------------------------------------
(* Updates.  One record shape serves every update type; a field the type   *)
(* does not have is never read for it.                                     *)

NoUser == [none |-> TRUE, id |-> 0, username |-> NoStr, is_self |-> PyNone]
User(id, username, is_self) ==
    [none |-> FALSE, id |-> id, username |-> username, is_self |-> is_self]

NoChat == [none |-> TRUE, type |-> "", id |-> 0, username |-> NoStr]
Chat(type, id, username) == [none |-> FALSE, type |-> type, id |-> id, username |-> username]

\* a Message with every optional field absent
EmptyMessage ==
    [kind |-> "Message", text |-> NoStr, caption |-> NoStr, data |-> NoStr,
     query |-> NoStr, outgoing |-> PyNone, chat |-> NoChat, from_user |-> NoUser,
     forward_from_chat |-> NoChat, media |-> PyNone, present |-> {},
     has_message |-> TRUE, command |-> NoAnnot, matches |-> NoAnnot]

\* annotations left on an update by whoever handled it before
OldCommand == Annot(<<<<"o", "l", "d">>>>)
OldMatches == Annot(<<(<<0, 1>>)>>)

Digits == {"1", "2", "4"}

\* r"\d+" and r"\d*"
DigitsPlus == [cls |-> Digits, star |-> FALSE]
DigitsStar == [cls |-> Digits, star |-> TRUE]

-----------------------------------------------------------------------------
(* Spec: a filter tree is built with ~, & and | from a few leaves and      *)
(* evaluated once against one of a few updates.                            *)

TreeLeaves ==
    {regex(DigitsPlus), user(POne(Id(1))),
     command(<<<<"a">>>>, PStr(<<"/">>), FALSE), command(<<<<"b">>>>, PStr(<<"/">>), FALSE)}

TreeUpdates ==
    {[EmptyMessage EXCEPT !.text = Str(<<"/", "a", " ", "1">>), !.chat = Chat("PRIVATE", 7, NoStr)],
     [EmptyMessage EXCEPT !.matches = OldMatches, !.outgoing = PyTrue,
                          !.from_user = User(1, Str(<<"A", "b">>), PyFalse),
                          !.chat = Chat("GROUP", 8, NoStr)],
     [EmptyMessage EXCEPT !.kind = "InlineQuery", !.query = Str(<<"1">>),
                          !.from_user = User(2, NoStr, PyFalse)],
     [EmptyMessage EXCEPT !.kind = "Poll"]}

Fresh ==
    /\ phase = "build"
    /\ stack = <<>>
    /\ ret = NoRet
    /\ log = <<>>
    /\ result = NoRet
    /\ first = NoRet
    /\ search = NoSearch
    /\ orig = update

Init ==
    /\ flt \in TreeLeaves
    /\ update \in TreeUpdates
    /\ me = [username |-> NoStr]
    /\ Fresh

\* Filter.__invert__
FilterInvert ==
    /\ phase = "build" /\ Ops(flt) < MaxOps
    /\ flt' = InvertFilter(flt)
    /\ UNCHANGED <<update, orig, me, phase, stack, ret, log, result, first, search>>

\* Filter.__and__, with the tree built so far on either side
FilterAnd ==
    /\ phase = "build" /\ Ops(flt) < MaxOps
    /\ \E l \in TreeLeaves : flt' \in {AndFilter(flt, l), AndFilter(l, flt)}
    /\ UNCHANGED <<update, orig, me, phase, stack, ret, log, result, first, search>>

\* Filter.__or__
FilterOr ==
    /\ phase = "build" /\ Ops(flt) < MaxOps
    /\ \E l \in TreeLeaves : flt' \in {OrFilter(flt, l), OrFilter(l, flt)}
    /\ UNCHANGED <<update, orig, me, phase, stack, ret, log, result, first, search>>

Next ==
    \/ FilterInvert
    \/ FilterAnd
    \/ FilterOr
    \/ Dispatch
    \/ InvertCall
    \/ InvertReturn
    \/ AndCallBase
    \/ AndShortCircuit
    \/ AndCallOther
    \/ AndReturn
    \/ OrCallBase
    \/ OrShortCircuit
    \/ OrCallOther
    \/ OrReturn
    \/ PropagateError
    \/ CommandCall
    \/ RegexCall
    \/ UserFilterCall
    \/ Finish

Spec == Init /\ [][Next]_vars

-----------------------------------------------------------------------------
(* What the log of one evaluation says about a node.                       *)

Called(p) == \E i \in 1..Len(log) : log[i].ev = "call" /\ log[i].path = p
Returned(p) == \E i \in 1..Len(log) : log[i].ev = "ret" /\ log[i].path = p
Raised(p) == \E i \in 1..Len(log) : log[i].ev = "raise" /\ log[i].path = p
RetVal(p) == log[CHOOSE i \in 1..Len(log) : log[i].ev = "ret" /\ log[i].path = p].val
CallMode(p) == log[CHOOSE i \in 1..Len(log) : log[i].ev = "call" /\ log[i].path = p].val
InStack(p) == \E k \in 1..Len(stack) : stack[k].path = p
NodesOf(ops) == {p \in Paths(flt) : Sub(flt, p).op \in ops}
Falsy == {"False", "None"}

\* an annotation differs from the received one only if a filter that
\* writes it was invoked
WrittenOnlyByCalls ==
    /\ update.command # orig.command => \E p \in NodesOf({"command"}) : Called(p)
    /\ update.matches # orig.matches => \E p \in NodesOf({"regex"}) : Called(p)

\* C1: in And(P, Q), once P has returned a falsy value, And returns False
\* and Q is never invoked, so Q writes no annotation.
C1_AndShortCircuit ==
    /\ \A p \in NodesOf({"and"}) :
          (Returned(p \o <<1>>) /\ RetVal(p \o <<1>>) \in Falsy) =>
             /\ ~Called(p \o <<2>>)
             /\ ~InStack(p) => (Returned(p) /\ RetVal(p) = "False")
    /\ WrittenOnlyByCalls

\* And(P, command) came back False on a text the command filter matches,
\* and update.command was not written
C1_Witness ==
    /\ phase = "done" /\ flt.op = "and" /\ flt.other.op = "command"
    /\ flt.base.op \notin {"command", "regex"}
    /\ Returned(<<1>>) /\ RetVal(<<1>>) \in Falsy
    /\ result = Value("False")
    /\ ~update.text.none /\ update.text.s = <<"/", "a", " ", "1">> /\ flt.other.commands = {<<"a">>}
    /\ update.command.none

\* C2: in Or(P, Q), once P has returned a truthy value, Or returns True and
\* Q is never invoked.
C2_OrShortCircuit ==
    \A p \in NodesOf({"or"}) :
       (Returned(p \o <<1>>) /\ RetVal(p \o <<1>>) = "True") =>
          /\ ~Called(p \o <<2>>)
          /\ ~InStack(p) => (Returned(p) /\ RetVal(p) = "True")

C2_Witness ==
    /\ phase = "done" /\ flt.op = "or" /\ flt.other.op = "command"
    /\ flt.base.op = "regex"
    /\ Returned(<<1>>) /\ RetVal(<<1>>) = "True"
    /\ result = Value("True")
    /\ ~update.text.none /\ update.text.s = <<"/", "a", " ", "1">> /\ flt.other.commands = {<<"a">>}
    /\ update.command.none

\* C3: when the wrapped filter P returned (did not raise), Invert(P)
\* returns True if P's value is falsy and False if it is truthy, for P
\* awaited as a coroutine and for P run in the executor.
C3_InvertNegates ==
    \A p \in NodesOf({"invert"}) :
       (Returned(p \o <<1>>) /\ ~InStack(p)) =>
          /\ Returned(p)
          /\ RetVal(p \o <<1>>) \in Falsy => RetVal(p) = "True"
          /\ RetVal(p \o <<1>>) = "True" => RetVal(p) = "False"

\* an Invert over an awaited child and one over an executor child have both
\* returned, one negating a falsy value and one a truthy value
C3_Witness ==
    /\ phase = "done"
    /\ \E p, q \in NodesOf({"invert"}) :
          /\ Returned(p) /\ CallMode(p \o <<1>>) = "await"
          /\ RetVal(p \o <<1>>) = "True" /\ RetVal(p) = "False"
          /\ Returned(q) /\ CallMode(q \o <<1>>) = "executor"
          /\ RetVal(q \o <<1>>) = "False" /\ RetVal(q) = "True"

\* C4: when the right operand was evaluated, And and Or return its value
\* unchanged; when it was not, And returns False and Or returns True.
C4_RightOperandValue ==
    \A p \in NodesOf({"and", "or"}) :
       Returned(p) =>
          IF Returned(p \o <<2>>) THEN RetVal(p) = RetVal(p \o <<2>>)
          ELSE RetVal(p) = (IF Sub(flt, p).op = "and" THEN "False" ELSE "True")

\* And(P, Q) with P True gave Q's None, and an Or gave its right operand's
\* value too
C4_Witness ==
    /\ phase = "done" /\ flt.op = "and"
    /\ Returned(<<1>>) /\ RetVal(<<1>>) = "True"
    /\ Returned(<<2>>) /\ RetVal(<<2>>) = "None"
    /\ result = Value("None")

\* C5: every filter evaluation that returns gives exactly True or False.
C5_StrictlyBoolean ==
    \A i \in 1..Len(log) : log[i].ev = "ret" => log[i].val \in {"True", "False"}

\* the update types a filter raises ValueError for
Unsupported(op) ==
    CASE op = "private" -> {"InlineQuery", "Poll"}
      [] op = "regex" -> {"Poll"}
      [] OTHER -> {}

\* C6: when an evaluated chat-scope or regex filter is given an update type
\* it does not support, it raises, every combinator above it ends with that
\* error, nothing is invoked afterwards and the evaluation ends with the
\* error instead of a boolean.
C6_ErrorAborts ==
    /\ \A p \in NodesOf({"private", "regex"}) :
          (Called(p) /\ ~InStack(p) /\ update.kind \in Unsupported(Sub(flt, p).op))
             => Raised(p)
    /\ \A i \in 1..Len(log) :
          (log[i].ev = "raise" /\ log[i].val = "ValueError") =>
             /\ \A j \in (i + 1)..Len(log) :
                   /\ log[j] = Event("raise", SubSeq(log[j - 1].path, 1, Len(log[j - 1].path) - 1),
                                     "ValueError")
                   /\ Sub(flt, log[j].path).op \in Combinators
             /\ phase = "done" => result = [kind |-> "raise", v |-> "ValueError"]
             /\ ~Returned(<<>>)

\* an Or whose left operand raised sits under an Invert, and the whole
\* evaluation ended with the error
C6_Witness ==
    /\ phase = "done" /\ result = [kind |-> "raise", v |-> "ValueError"]
    /\ flt.op = "invert" /\ flt.base.op = "or"
    /\ Raised(<<1, 1>>) /\ ~Called(<<1, 2>>)

-----------------------------------------------------------------------------
(* SpecLeaf: one command, regex, user or attribute filter is evaluated     *)
(* alone against an update drawn from a wider set.                         *)

\* the characters argument tails are made of
TailChars == {" ", "x", "\"", "'", "\\", "\n"}

\* all strs over a set of characters, up to a length
RECURSIVE StrsUpTo(_, _)
StrsUpTo(chars, n) ==
    IF n = 0 THEN {<<>>}
    ELSE LET shorter == StrsUpTo(chars, n - 1)
         IN  shorter \cup {Append(s, c) : s \in shorter, c \in chars}

CommandHeads ==
    {<<"/", "a">>, <<"/", "A">>, <<"/", "a", "@", "b">>, <<"/", "a", "@", "B">>, <<"/", "a", "b">>, <<"/", "a", "@">>, <<"a">>, <<"a", "b">>, <<"!", "A">>, <<"!", "a">>, <<"/", "b">>, <<"/">>, <<>>}

CommandFilters ==
    {command(<<<<"a">>>>, PStr(<<"/">>), FALSE),
     command(<<<<"A">>, <<"a", "b">>>>, PList(<<<<"/">>, <<>>>>), FALSE),
     command(<<<<"A">>>>, PStr(<<"!">>), TRUE),
     command(<<<<"a">>>>, PNone, FALSE)}

StartFilter == command(<<<<"s", "t", "a", "r", "t">>>>, PStr(<<"/">>), FALSE)

Ex_start == <<"/", "s", "t", "a", "r", "t">>
Ex_Start == <<"/", "S", "t", "a", "r", "t">>
Ex_args == <<"/", "s", "t", "a", "r", "t", " ", "h", "e", "l", "l", "o", " ", "\"", "f", "o", "o", " ", "b", "a", "r", "\"", " ", "b", "a", "z">>
Ex_quoted == <<"/", "s", "t", "a", "r", "t", " ", "\\", "\"", "q", "u", "o", "t", "e", "d", "\\", "\"">>

ExampleTexts == {Ex_start, Ex_Start, Ex_args, Ex_quoted}

\* command("Start") and command("Start", case_sensitive=True)
StartFilters ==
    {StartFilter,
     command(<<<<"S", "t", "a", "r", "t">>>>, PStr(<<"/">>), FALSE),
     command(<<<<"S", "t", "a", "r", "t">>>>, PStr(<<"/">>), TRUE)}

Go == <<"g", "o">>

\* command("go", prefixes="!") and command("go") with no prefix given as
\* None, "" or []
GoFilters ==
    {command(<<Go>>, PStr(<<"!">>), FALSE), command(<<Go>>, PNone, FALSE),
     command(<<Go>>, PStr(<<>>), FALSE), command(<<Go>>, PList(<<>>), FALSE)}

\* command(["a", "/a"], prefixes=["/", ""]): two (prefix, name) pairs fit "/a"
OverlapFilter == command(<<<<"a">>, <<"/", "a">>>>, PList(<<<<"/">>, <<>>>>), FALSE)

GoTexts == {<<"!", "g", "o">>, <<"/", "g", "o">>, Go, <<"g", "o", " ", "x">>, <<"!", "g", "o", " ", "x">>}

Usernames == {NoStr, Str(<<"b">>)}

\* a Message carrying t as its text or, lacking text, as its caption
TextMessage(t, via) ==
    IF via = "text" THEN [EmptyMessage EXCEPT !.text = t]
    ELSE [EmptyMessage EXCEPT !.caption = t]

InitCommand ==
    /\ \E un \in Usernames : me = [username |-> un]
    /\ \/ /\ flt \in CommandFilters
          /\ \E h \in CommandHeads, tl \in StrsUpTo(TailChars, 1),
                via \in {"text", "caption"}, old \in {NoAnnot, OldCommand} :
                update = [TextMessage(Str(h \o tl), via) EXCEPT !.command = old]
       \/ /\ flt \in CommandFilters
          /\ \E old \in {NoAnnot, OldCommand} :
                update = [EmptyMessage EXCEPT !.command = old]
       \/ /\ flt = command(<<<<"a">>>>, PStr(<<"/">>), FALSE)
          /\ \E tl \in StrsUpTo(TailChars, MaxTail) :
                update = TextMessage(Str(<<"/", "a", " ">> \o tl), "text")
       \/ /\ flt \in StartFilters
          /\ \E t \in ExampleTexts : update = TextMessage(Str(t), "text")
       \/ /\ flt = OverlapFilter
          /\ \E t \in {<<"/", "a">>, <<"/", "a", " ", "x">>, <<"a">>} :
                update = TextMessage(Str(t), "text")
       \/ /\ flt \in GoFilters
          /\ \E t \in GoTexts : update = TextMessage(Str(t), "text")

RegexChars == {"1", "x"}

Ex_order == <<"o", "r", "d", "e", "r", " ", "4", "2">>
Ex_nodigits == <<"n", "o", " ", "d", "i", "g", "i", "t", "s">>

RegexTexts ==
    {Str(s) : s \in StrsUpTo(RegexChars, MaxRegexText) \cup {Ex_order, Ex_nodigits}}
       \cup {NoStr}

InitRegex ==
    /\ me = [username |-> NoStr]
    /\ flt \in {regex(DigitsPlus), regex(DigitsStar)}
    /\ \E t \in RegexTexts, old \in {NoAnnot, OldMatches} :
          update \in
             {[EmptyMessage EXCEPT !.text = t, !.matches = old],
              [EmptyMessage EXCEPT !.caption = t, !.matches = old],
              [EmptyMessage EXCEPT !.text = Str(<<>>), !.caption = t, !.matches = old],
              [EmptyMessage EXCEPT !.kind = "CallbackQuery", !.data = t, !.matches = old],
              [EmptyMessage EXCEPT !.kind = "InlineQuery", !.query = t, !.matches = old],
              [EmptyMessage EXCEPT !.kind = "Poll", !.matches = old]}

AttributeFilters ==
    {outgoing, private, group, channel, filters_me, linked_channel,
     user(PList(<<Id(1), Name(<<"a", "l", "i", "c", "e">>), Name(Me)>>))}

InitAttribute ==
    /\ me = [username |-> NoStr]
    /\ flt \in AttributeFilters
    /\ \E kind \in {"Message", "CallbackQuery", "InlineQuery", "Poll"},
          out \in {PyNone, PyTrue, PyFalse},
          ch \in {NoChat, Chat("PRIVATE", 7, NoStr), Chat("BOT", 7, NoStr),
                    Chat("GROUP", 8, NoStr), Chat("SUPERGROUP", 9, NoStr),
                    Chat("CHANNEL", 5, NoStr)},
          ffc \in {NoChat, Chat("CHANNEL", 5, NoStr)},
          hm \in BOOLEAN,
          fu \in {NoUser, User(1, NoStr, PyFalse), User(2, Str(<<"A", "l", "i", "c", "e">>), PyFalse),
                  User(3, NoStr, PyTrue), User(4, NoStr, PyNone)} :
          /\ (kind # "CallbackQuery" => hm)
          /\ update = [EmptyMessage EXCEPT !.kind = kind, !.outgoing = out, !.chat = ch,
                                            !.has_message = hm, !.from_user = fu,
                                            !.forward_from_chat = ffc]

\* the fields the docstring of filters.media names
DocumentedMedia ==
    {"audio", "document", "photo", "sticker", "video", "animation", "voice",
     "video_note", "contact", "location", "venue", "poll"}

\* a Message with any of the documented fields set (present) and any value
\* of its media attribute
InitMedia ==
    /\ me = [username |-> NoStr]
    /\ flt = media
    /\ \E fields \in SUBSET DocumentedMedia, kind \in {PyNone, "PHOTO", "GAME"} :
          update = [EmptyMessage EXCEPT !.present = fields, !.media = kind]

InitLeaf ==
    /\ InitCommand \/ InitRegex \/ InitAttribute \/ InitMedia
    /\ Fresh

NextLeaf ==
    \/ Dispatch
    \/ CommandCall
    \/ RegexCall
    \/ UserFilterCall
    \/ OutgoingCall
    \/ PrivateCall
    \/ GroupCall
    \/ ChannelCall
    \/ MeCall
    \/ MediaCall
    \/ LinkedChannelCall
    \/ Finish

SpecLeaf == InitLeaf /\ [][NextLeaf]_vars

-----------------------------------------------------------------------------
(* Claims about the command and regex filters, stated on SpecLeaf.         *)

\* the text a leaf works on: the text or, lacking text, the caption
SelectedText == StrOr(orig.text, orig.caption)

CommandDone == phase = "done" /\ flt.op = "command" /\ orig.kind = "Message"

\* the stated grammar: prefix, command name, optionally "@" and the
\* username, then a whitespace character or the end of the text
StatedMatch(t, p, c) ==
    /\ StartsWith(t, p)
    /\ LET r == From(t, Len(p) + 1)
       IN  /\ LitAt(r, 1, c, flt.case_sensitive)
           /\ \E e \in {Len(c) + 1}
                         \cup AtUsernameEnds(r, Len(c) + 1, UsernameOrEmpty, flt.case_sensitive) :
                 e = Len(r) + 1 \/ (e <= Len(r) /\ IsSpace(r[e]))

\* C7: command returns True iff some configured prefix and command name
\* match the text as prefix, name, optional "@username", then whitespace
\* or the end; it returns False without text and caption.
C7_CommandMatchesIff ==
    CommandDone =>
       /\ result \in {Value("True"), Value("False")}
       /\ result = Value("True") <=>
             /\ StrTruthy(SelectedText)
             /\ \E p \in flt.prefixes, c \in flt.commands : StatedMatch(SelectedText.s, p, c)

\* t without every backslash that stands right before a quote
RECURSIVE StatedUnescape(_, _)
StatedUnescape(t, i) ==
    IF i > Len(t) THEN <<>>
    ELSE IF t[i] = "\\" /\ i < Len(t) /\ t[i + 1] \in Quotes THEN StatedUnescape(t, i + 1)
    ELSE <<t[i]>> \o StatedUnescape(t, i + 1)

\* the stated scanner from position i: a quoted span runs from a quote to
\* the nearest later quote of the same kind that no backslash precedes;
\* anything else is a maximal run of non-whitespace characters
RECURSIVE StatedArgs(_, _)
StatedArgs(s, i) ==
    IF i > Len(s) THEN <<>>
    ELSE IF IsSpace(s[i]) THEN StatedArgs(s, i + 1)
    ELSE LET closing == {j \in (i + 1)..Len(s) : s[j] = s[i] /\ s[j - 1] # "\\"}
             stops == {j \in i..Len(s) : IsSpace(s[j])} \cup {Len(s) + 1}
         IN  IF s[i] \in Quotes /\ closing # {}
             THEN LET j == CHOOSE a \in closing : \A b \in closing : a <= b
                  IN  <<StatedUnescape(SubSeq(s, i + 1, j - 1), 1)>> \o StatedArgs(s, j + 1)
             ELSE LET j == CHOOSE a \in stops : \A b \in stops : a <= b
                  IN  <<StatedUnescape(SubSeq(s, i, j - 1), 1)>> \o StatedArgs(s, j)

\* C8: when command returns True, update.command is the matched command
\* name followed by the arguments of the rest of the text in text order, an
\* argument being the inner text of a quoted span or a maximal run of
\* non-whitespace characters, escaped quotes un-escaped; the three example
\* texts give [start], [start, hello, foo bar, baz] and [start, "quoted"].
C8_CommandAnnotation ==
    (CommandDone /\ result = Value("True")) =>
       /\ ~update.command.none
       /\ \E p \in flt.prefixes, c \in flt.commands :
             LET r == From(SelectedText.s, Len(p) + 1)
             IN  /\ StartsWith(SelectedText.s, p)
                 /\ command_match(c, UsernameOrEmpty, flt.case_sensitive, r)
                 /\ update.command.v =
                       <<c>> \o StatedArgs(command_sub(c, UsernameOrEmpty, flt.case_sensitive, r), 1)
       /\ SelectedText.s = Ex_start => update.command.v = <<<<"s", "t", "a", "r", "t">>>>
       /\ SelectedText.s = Ex_args =>
             update.command.v = <<<<"s", "t", "a", "r", "t">>, <<"h", "e", "l", "l", "o">>, <<"f", "o", "o", " ", "b", "a", "r">>, <<"b", "a", "z">>>>
       /\ SelectedText.s = Ex_quoted => update.command.v = <<<<"s", "t", "a", "r", "t">>, <<"\"", "q", "u", "o", "t", "e", "d", "\"">>>>

\* the same, for texts whose quoted spans hold no line break: on these the
\* scanner of command_re and the stated scanner agree
TokensAgreeOnOneLine ==
    (CommandDone /\ result = Value("True")
        /\ \A k \in 1..Len(SelectedText.s) : SelectedText.s[k] # "\n")
       => C8_CommandAnnotation

\* the text regex selects from the update, by its type
RegexValue ==
    CASE orig.kind = "Message" -> StrOr(orig.text, orig.caption)
      [] orig.kind = "CallbackQuery" -> orig.data
      [] orig.kind = "InlineQuery" -> orig.query
      [] OTHER -> NoStr

\* all matches of the pattern in the selected text
AllMatches == IF RegexValue.none THEN <<>> ELSE PatternFinditer(flt.p, RegexValue.s, 0)

\* C9: after an evaluation of command or regex the annotation is non-null
\* only if that evaluation found a match (then it holds what was found);
\* a value left on the update before never survives.
C9_AnnotationOnlyOnMatch ==
    (phase = "done" /\ result.kind = "value") =>
       /\ flt.op = "command" =>
             (~update.command.none => result = Value("True"))
       /\ flt.op = "regex" =>
             (~update.matches.none =>
                 (Len(AllMatches) > 0 /\ update.matches.v = AllMatches))

\* C10: on a Message, CallbackQuery or InlineQuery, regex returns True
\* exactly when the pattern has a match in the selected text, and
\* update.matches is then the list of all matches, and null otherwise.
C10_RegexMatches ==
    (phase = "done" /\ flt.op = "regex"
        /\ orig.kind \in {"Message", "CallbackQuery", "InlineQuery"}) =>
       /\ result = Value(IF Len(AllMatches) > 0 THEN "True" ELSE "False")
       /\ update.matches = IF Len(AllMatches) > 0 THEN Annot(AllMatches) ELSE NoAnnot


-----------------------------------------------------------------------------
(* Claims about text selection, membership filters, chat scope, prefixes   *)
(* and letter case.                                                        *)

RegexDone == phase = "done" /\ flt.op = "regex"

\* C11: regex matches against the text of a Message, or its caption when
\* the text is empty, against the data of a CallbackQuery and the query of
\* an InlineQuery; for any other update type it raises ValueError instead
\* of returning, and update.matches stays as it was.
C11_RegexSelectsText ==
    RegexDone =>
       IF orig.kind \in {"Message", "CallbackQuery", "InlineQuery"}
       THEN /\ result.kind = "value"
            /\ StrTruthy(RegexValue) =>
                  /\ update.matches = ListOrNone(PatternFinditer(flt.p, RegexValue.s, 0))
                  /\ result = Value(PyBool(Len(PatternFinditer(flt.p, RegexValue.s, 0)) > 0))
       ELSE /\ result = [kind |-> "raise", v |-> "ValueError"]
            /\ update.matches = orig.matches

\* a Message with an empty text was matched through its caption
C11_Witness ==
    /\ RegexDone /\ orig.kind = "Message"
    /\ orig.text = Str(<<>>) /\ orig.caption = Str(<<"x", "1">>)
    /\ result = Value("True") /\ update.matches = Annot(<<(<<1, 2>>)>>)


-----------------------------------------------------------------------------
(* SpecSet: a user or chat filter is constructed, changed through the set  *)
(* methods it inherits, and evaluated against a message.                   *)

NoFilter == [op |-> "none"]

SetArgs ==
    {PNone, POne(Id(123)), POne(Name(<<"@", "A", "l", "i", "c", "e">>)),
     PList(<<Name(<<"@", "A", "l", "i", "c", "e">>), Id(123), Name(Me)>>),
     PList(<<Name(Self), Name(<<"M", "E">>)>>),
     PList(<<Name(<<"@", "@", "b", "o", "b", "@">>), Id(1)>>)}

\* what the caller passes to add, remove and update
SetElements == {Id(1), Name(<<"a", "l", "i", "c", "e">>), Name(<<"@", "A", "l", "i", "c", "e">>), Name(Me), Name(Self)}
SetLists == {<<Id(2), Name(<<"B", "o", "b">>)>>}

SetUpdates ==
    {[EmptyMessage EXCEPT !.from_user = fu, !.chat = ch, !.outgoing = out] :
        fu \in {NoUser, User(1, NoStr, PyNone), User(2, Str(<<"A", "l", "i", "c", "e">>), PyFalse),
                User(3, NoStr, PyTrue)},
        ch \in {NoChat, Chat("PRIVATE", 3, NoStr), Chat("SUPERGROUP", 9, Str(<<"A", "l", "i", "c", "e">>))},
        out \in {PyNone, PyTrue, PyFalse}}
       \cup {[EmptyMessage EXCEPT !.kind = "Poll"]}

InitSet ==
    /\ flt = NoFilter
    /\ update \in SetUpdates
    /\ me = [username |-> NoStr]
    /\ phase = "new"
    /\ stack = <<>>
    /\ ret = NoRet
    /\ log = <<>>
    /\ result = NoRet
    /\ first = NoRet
    /\ search = NoSearch
    /\ orig = update

\* user(users) or chat(chats) is called
Construct ==
    /\ phase = "new"
    /\ \E arg \in SetArgs :
          /\ flt' \in {user(arg), chat(arg)}
          /\ log' = <<Event("init", <<>>, arg)>>
    /\ phase' = "build"
    /\ UNCHANGED <<update, orig, me, stack, ret, result, first, search>>

Mutable == phase = "build" /\ flt.op \in {"user", "chat"} /\ Len(log) <= MaxSetOps

\* set.add, inherited as it is
SetAdd ==
    /\ Mutable
    /\ \E e \in SetElements :
          /\ flt' = [flt EXCEPT !.items = @ \cup {e}]
          /\ log' = Append(log, Event("add", <<>>, e))
    /\ UNCHANGED <<update, orig, me, phase, stack, ret, result, first, search>>

\* set.update, inherited as it is
SetUpdate ==
    /\ Mutable
    /\ \E l \in SetLists :
          /\ flt' = [flt EXCEPT !.items = @ \cup {l[i] : i \in 1..Len(l)}]
          /\ log' = Append(log, Event("update", <<>>, l))
    /\ UNCHANGED <<update, orig, me, phase, stack, ret, result, first, search>>

\* set.remove of an element that is in the set
SetRemove ==
    /\ Mutable
    /\ \E e \in flt.items :
          /\ flt' = [flt EXCEPT !.items = @ \ {e}]
          /\ log' = Append(log, Event("remove", <<>>, e))
    /\ UNCHANGED <<update, orig, me, phase, stack, ret, result, first, search>>

NextSet ==
    \/ Construct
    \/ SetAdd
    \/ SetUpdate
    \/ SetRemove
    \/ Dispatch
    \/ UserFilterCall
    \/ ChatFilterCall
    \/ Finish

SpecSet == InitSet /\ [][NextSet]_vars

\* a str is in the stated normal form
NormalForm(s) ==
    /\ Lower(s) = s
    /\ Len(s) > 0 => s[1] # "@"
    /\ s # Self

\* C12: at every moment after construction and any add or update, every
\* str in a user or chat filter is lower-case, has no leading "@", and is
\* not "self" (which is kept as "me").
C12_AlwaysNormalized ==
    flt.op \in {"user", "chat"} => \A e \in flt.items : ~e.int => NormalForm(e.s)


\* the stated normal form of one element: an int as it is, "me" and "self"
\* as "me", any other str lower-cased and without one leading "@"
StatedNormalized(u) ==
    IF u.int THEN u
    ELSE IF u.s \in {Me, Self} THEN Name(Me)
    ELSE LET l == Lower(u.s)
         IN  Name(IF Len(l) > 0 /\ l[1] = "@" THEN Tail(l) ELSE l)

\* the elements of a constructor argument
ArgElements(arg) ==
    CASE arg.k = "None" -> {}
      [] arg.k = "one" -> {arg.e}
      [] arg.k = "list" -> {arg.l[i] : i \in 1..Len(arg.l)}

Constructed == phase = "build" /\ Len(log) = 1 /\ log[1].ev = "init"

\* C13: right after user(ids) or chat(ids), the set holds each int
\* unchanged, each str lower-cased with a leading "@" removed, and "me" for
\* both "me" and "self"; ["@Alice", 123, "me"] gives {"alice", 123, "me"}
\* and None gives the empty set.
C13_ConstructionNormalizes ==
    Constructed =>
       /\ flt.items = {StatedNormalized(u) : u \in ArgElements(log[1].val)}
       /\ log[1].val = PList(<<Name(<<"@", "A", "l", "i", "c", "e">>), Id(123), Name(Me)>>) =>
             flt.items = {Name(<<"a", "l", "i", "c", "e">>), Id(123), Name(Me)}
       /\ log[1].val = PNone => flt.items = {}

\* the same, for strs with at most one "@", which stands in front
C13_HoldsForPlainNames ==
    (Constructed
        /\ \A u \in ArgElements(log[1].val) :
              \A k \in 2..Len(u.s) : u.s[k] # "@")
       => C13_ConstructionNormalizes


SetDone(op) == phase = "done" /\ flt.op = op /\ orig.kind = "Message"

\* C14: whatever add and remove did to a user filter, its value for a
\* message is truthy iff the message has a sender and the sender's id is in
\* the current set, or the sender's lower-cased username is, or "me" is and
\* the sender is the account itself; without a sender it is falsy.
C14_UserMembership ==
    SetDone("user") =>
       /\ result.kind = "value"
       /\ Truthy(result.v) <=>
             /\ ~orig.from_user.none
             /\ \/ Id(orig.from_user.id) \in flt.items
                \/ /\ ~orig.from_user.username.none
                   /\ Name(Lower(orig.from_user.username.s)) \in flt.items
                \/ Name(Me) \in flt.items /\ orig.from_user.is_self = PyTrue
       /\ orig.from_user.none => ~Truthy(result.v)

\* "alice" was added and the constructor's id removed; a message from
\* @Alice then passes by the username alone
C14_Witness ==
    /\ SetDone("user") /\ result = Value("True")
    /\ Len(log) >= 3 /\ log[2] = Event("add", <<>>, Name(<<"a", "l", "i", "c", "e">>)) /\ log[3].ev = "remove"
    /\ flt.items = {Name(<<"a", "l", "i", "c", "e">>)}
    /\ orig.from_user.username = Str(<<"A", "l", "i", "c", "e">>)

ChatScope == {"private", "group", "channel"}

AttributeDone == phase = "done" /\ flt.op \in ChatScope \cup {"outgoing", "me", "linked_channel"}

\* the update types an attribute filter is meant for
MeantFor(op) == IF op \in ChatScope THEN {"Message", "CallbackQuery"} ELSE {"Message"}

\* the field the filter tests is missing or null in the received update
TestedFieldNull ==
    CASE flt.op \in ChatScope -> ~orig.has_message \/ orig.chat.none
      [] flt.op = "outgoing" -> orig.outgoing = PyNone
      [] flt.op = "me" -> orig.from_user.none /\ orig.outgoing = PyNone
      [] flt.op = "linked_channel" -> orig.forward_from_chat.none

\* C16: an attribute filter given a Message (or, for private, group and
\* channel, a CallbackQuery) whose tested field is missing or null raises
\* nothing and returns a false value, also for a CallbackQuery whose
\* message is null.
C16_NullFieldIsFalse ==
    (AttributeDone /\ orig.kind \in MeantFor(flt.op) /\ TestedFieldNull) =>
       (result.kind = "value" /\ ~Truthy(result.v))

\* the same, for every update but a CallbackQuery without a message
C16_HoldsWithMessage ==
    (AttributeDone /\ orig.has_message) => C16_NullFieldIsFalse

\* the chat a chat-scope filter looks at exists and has one of these types
ChatIs(types) == orig.has_message /\ ~orig.chat.none /\ orig.chat.type \in types

\* the value a chat-scope filter gives for the received update
ScopeTrue(r) == r.kind = "value" /\ r.v = PyTrue

\* C17: for a Message the chat is update.chat and for a CallbackQuery it is
\* update.message.chat; private is true iff that chat exists and is PRIVATE
\* or BOT, group iff GROUP or SUPERGROUP, channel iff CHANNEL, so at most
\* one of the three is true; any other update type raises ValueError.
C17_ChatScope ==
    (phase = "done" /\ flt.op \in ChatScope) =>
       IF orig.kind \in {"Message", "CallbackQuery"}
       THEN /\ flt.op = "private" => (ScopeTrue(result) <=> ChatIs({"PRIVATE", "BOT"}))
            /\ flt.op = "group" => (ScopeTrue(result) <=> ChatIs({"GROUP", "SUPERGROUP"}))
            /\ flt.op = "channel" => (ScopeTrue(result) <=> ChatIs({"CHANNEL"}))
            /\ Cardinality({r \in {private_filter(orig), group_filter(orig), channel_filter(orig)} :
                              ScopeTrue(r)}) <= 1
       ELSE result = [kind |-> "raise", v |-> "ValueError"]

\* group was true for a CallbackQuery whose message is in a supergroup
C17_Witness ==
    /\ phase = "done" /\ flt.op = "group" /\ orig.kind = "CallbackQuery"
    /\ orig.has_message /\ orig.chat.type = "SUPERGROUP"
    /\ result = Value("True")
    /\ ~ScopeTrue(private_filter(orig)) /\ ~ScopeTrue(channel_filter(orig))


\* C18: command returns True only for a text that starts with one of the
\* configured prefixes; command("go", prefixes="!") matches "!go" and not
\* "/go"; prefixes None, "" and [] all give the prefix set {""}, with
\* which command("go") matches the bare text "go".
C18_Prefixes ==
    CommandDone =>
       /\ result = Value("True") =>
             /\ StrTruthy(SelectedText)
             /\ \E p \in flt.prefixes : StartsWith(SelectedText.s, p)
       /\ flt = command(<<Go>>, PStr(<<"!">>), FALSE) =>
             /\ SelectedText = Str(<<"!", "g", "o">>) => result = Value("True")
             /\ SelectedText = Str(<<"/", "g", "o">>) => result = Value("False")
       /\ \A arg \in {PNone, PStr(<<>>), PList(<<>>)} :
             flt = command(<<Go>>, arg, FALSE) =>
                /\ flt.prefixes = {<<>>}
                /\ SelectedText = Str(Go) => result = Value("True")

\* command("go", prefixes=None) matched the bare text "go"
C18_Witness ==
    /\ CommandDone /\ flt = command(<<Go>>, PNone, FALSE)
    /\ SelectedText = Str(Go)
    /\ result = Value("True") /\ update.command = Annot(<<Go>>)

\* the received update with its text and caption lower-cased
LowerCased(m) ==
    [m EXCEPT !.text = IF @.none THEN @ ELSE Str(Lower(@.s)),
              !.caption = IF @.none THEN @ ELSE Str(Lower(@.s))]

\* C19: without case_sensitive the configured names are lower-cased and a
\* text matches exactly when its lower-cased form does, "/Start" matching
\* command("start") with the annotation ["start"]; with case_sensitive the
\* names are kept as given and must occur in the text letter for letter,
\* so command("Start") matches "/Start" and not "/start".
C19_LetterCase ==
    CommandDone =>
       /\ ~flt.case_sensitive =>
             /\ \A c \in flt.commands : Lower(c) = c
             /\ \A pseq \in Orders(flt.prefixes), cseq \in Orders(flt.commands) :
                   result.v = CommandFunc(flt, LowerCased(orig), pseq, cseq).v
             /\ result = Value("True") => update.command.v[1] \in flt.commands
       /\ flt.case_sensitive =>
             (result = Value("True") =>
                \E p \in flt.prefixes, c \in flt.commands : StartsWith(SelectedText.s, p \o c))
       /\ (flt = StartFilter /\ SelectedText = Str(Ex_Start)) =>
             (result = Value("True") /\ update.command = Annot(<<<<"s", "t", "a", "r", "t">>>>))
       /\ flt = command(<<<<"S", "t", "a", "r", "t">>>>, PStr(<<"/">>), TRUE) =>
             /\ flt.commands = {<<"S", "t", "a", "r", "t">>}
             /\ SelectedText = Str(Ex_Start) =>
                   (result = Value("True") /\ update.command = Annot(<<<<"S", "t", "a", "r", "t">>>>))
             /\ SelectedText = Str(Ex_start) => result = Value("False")

\* "/Start" was matched by command("start") and annotated ["start"]
C19_Witness ==
    /\ CommandDone /\ flt = command(<<<<"S", "t", "a", "r", "t">>>>, PStr(<<"/">>), FALSE)
    /\ SelectedText = Str(Ex_Start)
    /\ result = Value("True") /\ update.command = Annot(<<<<"s", "t", "a", "r", "t">>>>)


-----------------------------------------------------------------------------
(* SpecTwice: a filter tree is built as in Spec and evaluated twice in a   *)
(* row against the same update.                                            *)

TwiceLeaves == TreeLeaves \cup {chat(PList(<<Id(7), Name(Me)>>)), private}

InitTwice ==
    /\ flt \in TwiceLeaves
    /\ update \in TreeUpdates
    /\ me = [username |-> NoStr]
    /\ Fresh

NextTwice ==
    \/ FilterInvert
    \/ FilterAnd
    \/ FilterOr
    \/ Dispatch
    \/ InvertCall
    \/ InvertReturn
    \/ AndCallBase
    \/ AndShortCircuit
    \/ AndCallOther
    \/ AndReturn
    \/ OrCallBase
    \/ OrShortCircuit
    \/ OrCallOther
    \/ OrReturn
    \/ PropagateError
    \/ CommandCall
    \/ RegexCall
    \/ UserFilterCall
    \/ ChatFilterCall
    \/ PrivateCall
    \/ Finish
    \/ Reevaluate

SpecTwice == InitTwice /\ [][NextTwice]_vars

\* C20: the second of two evaluations in a row of the same tree against
\* the same update ends as the first did: with the same value, or with the
\* same error.
C20_SameResultTwice ==
    (phase = "done" /\ first # NoRet) => result = first

\* And(command, regex) was True twice on "/a 1", the first evaluation
\* having written update.command and update.matches
C20_Witness ==
    /\ phase = "done" /\ first = Value("True") /\ result = Value("True")
    /\ flt.op = "and" /\ flt.base.op = "command" /\ flt.other.op = "regex"
    /\ orig.command.none /\ orig.matches.none
    /\ update.command = Annot(<<<<"a">>, <<"1">>>>) /\ update.matches = Annot(<<(<<3, 4>>)>>)


-----------------------------------------------------------------------------
(* Claims about the media filter, the order of evaluation and the command  *)
(* annotation.                                                             *)

\* C21: media returns True iff at least one of the twelve documented
\* fields of the message is set, and False when none is.
C21_MediaIffDocumentedField ==
    (phase = "done" /\ flt.op = "media" /\ orig.kind = "Message") =>
       result = Value(PyBool(orig.present # {}))

\* the same, for messages whose media attribute is set exactly when one of
\* the twelve fields is
C21_HoldsWhenMediaAgrees ==
    (phase = "done" /\ flt.op = "media" /\ ((orig.media # PyNone) <=> (orig.present # {})))
       => C21_MediaIffDocumentedField


\* where in the log a node was invoked, and where its evaluation ended
CallsOf(p) == {i \in 1..Len(log) : log[i].ev = "call" /\ log[i].path = p}
EndsOf(p) == {i \in 1..Len(log) : log[i].ev \in {"ret", "raise"} /\ log[i].path = p}

\* the log entries of the subtree under p
Within(p) ==
    {i \in 1..Len(log) : Len(log[i].path) >= Len(p) /\ SubSeq(log[i].path, 1, Len(p)) = p}

\* C23: in an evaluation of And or Or each child is invoked at most once;
\* the right child is invoked only after the left one was invoked and has
\* returned, and everything the left subtree does comes before everything
\* the right subtree does.
C23_LeftBeforeRight ==
    \A p \in NodesOf({"and", "or"}) :
       /\ Cardinality(CallsOf(p \o <<1>>)) <= 1
       /\ Cardinality(CallsOf(p \o <<2>>)) <= 1
       /\ \A j \in CallsOf(p \o <<2>>) :
             /\ \E c \in CallsOf(p \o <<1>>), e \in EndsOf(p \o <<1>>) :
                   c < e /\ e < j /\ log[e].ev = "ret"
             /\ \A i \in Within(p \o <<1>>) : i < j
       /\ \A i \in Within(p \o <<1>>), j \in Within(p \o <<2>>) : i < j

\* an And ran its left child in the executor and then awaited its right
\* child, an Or under it having finished before
C23_Witness ==
    /\ phase = "done" /\ flt.op = "and" /\ flt.base.op = "or" /\ flt.other.op = "user"
    /\ Returned(<<1, 1>>) /\ Returned(<<1, 2>>) /\ Returned(<<1>>) /\ Returned(<<2>>)
    /\ CallMode(<<1, 1>>) = "executor" /\ CallMode(<<2>>) = "await"


\* the command leaves that returned True in this evaluation
MatchedCommands == {p \in NodesOf({"command"}) : Returned(p) /\ RetVal(p) = "True"}

\* C24: when the tree evaluated to True and a command filter in it matched,
\* update.command is at the end the list a matching command filter wrote,
\* not null.
C24_CommandKeptForHandler ==
    (phase = "done" /\ result = Value("True") /\ MatchedCommands # {}) =>
       /\ ~update.command.none
       /\ \E p \in MatchedCommands : update.command.v[1] \in Sub(flt, p).commands

\* the same, for trees in which no command filter is evaluated after a
\* matching one
C24_HoldsWhenMatchIsLast ==
    (\A p \in MatchedCommands, q \in NodesOf({"command"}) :
        \A i \in CallsOf(q), j \in EndsOf(p) : i <= j)
       => C24_CommandKeptForHandler


\* C25: for a fixed text, username and configuration, the value command
\* returns and the list it writes to update.command are the same for every
\* order in which the prefix set and the command set are iterated.
C25_OrderIndependent ==
    CommandDone =>
       \A pseq \in Orders(flt.prefixes), cseq \in Orders(flt.commands) :
          /\ CommandFunc(flt, orig, pseq, cseq).v = result.v
          /\ CommandFunc(flt, orig, pseq, cseq).update.command = update.command

\* the returned value alone never depends on the order
C25_ValueOrderIndependent ==
    CommandDone =>
       \A pseq \in Orders(flt.prefixes), cseq \in Orders(flt.commands) :
          CommandFunc(flt, orig, pseq, cseq).v = result.v


-----------------------------------------------------------------------------
(* SpecSearch: the generator search_messages, from its call to its return. *)
(* A message is the position it has in the server's list of results.       *)

ExhaustedLate(current, total) == current > total

\* `if current >= total: return`
Exhausted(current, total) == current >= total

SameOffset(offset, messages) == offset

\* `offset += len(messages)`
NextOffset(offset, messages) == offset + Len(messages)

NeverEmpty(messages) == FALSE

\* `if not messages: return`
EmptyChunk(messages) == Len(messages) = 0

\* get_chunk: the server answers a request (add_offset, limit) with the
\* results from add_offset on, at most k of them
get_chunk(s, offset, k) ==
    LET last == IF s.endless THEN offset + k
                ELSE IF offset + k <= s.stored THEN offset + k ELSE s.stored
        n == IF last > offset THEN last - offset ELSE 0
    IN  [j \in 1..n |-> offset + j - 1]

InitSearch ==
    /\ flt = NoFilter
    /\ update = EmptyMessage
    /\ orig = update
    /\ me = [username |-> NoStr]
    /\ phase = "search"
    /\ stack = <<>>
    /\ ret = NoRet
    /\ log = <<>>
    /\ result = NoRet
    /\ first = NoRet
    /\ \E limit \in {0, 1, 3, -2, ChunkSize, ChunkSize + 20},
          offset \in {0, 5},
          stored \in {0, 1, 3, ChunkSize, ChunkSize + 1, MaxStored},
          endless \in BOOLEAN :
          /\ endless => (limit # 0 /\ stored = 0)
          /\ search = [pc |-> "new", arg_limit |-> limit, arg_offset |-> offset,
                       stored |-> stored, endless |-> endless,
                       current |-> 0, total |-> 0, limit |-> 0, offset |-> offset,
                       messages |-> <<>>, i |-> 0,
                       yielded |-> <<>>, chunks |-> <<>>, requests |-> <<>>]

\* the generator is started: current, total and limit are set
SearchStart ==
    /\ search.pc = "new"
    /\ LET abs == IF search.arg_limit < 0 THEN -search.arg_limit ELSE search.arg_limit
           total == IF abs # 0 THEN abs ELSE NoLimit
       IN  search' = [search EXCEPT !.pc = "request", !.current = 0, !.total = total,
                                    !.limit = IF ChunkSize < total THEN ChunkSize ELSE total]
    /\ UNCHANGED <<flt, update, orig, me, phase, stack, ret, log, result, first>>

\* `await get_chunk(...)`: the request leaves with the offset and limit
Request ==
    /\ search.pc = "request"
    /\ search' = [search EXCEPT !.pc = "await",
                                !.requests = Append(@, [offset |-> search.offset,
                                                        limit |-> search.limit])]
    /\ UNCHANGED <<flt, update, orig, me, phase, stack, ret, log, result, first>>

\* the chunk arrives: return if `not messages`, else advance the offset and
\* yield the first message; a `for` over no message falls through to the
\* next turn of `while True`
Response ==
    /\ search.pc = "await"
    /\ \E k \in {search.limit, IF ShortChunk < search.limit THEN ShortChunk ELSE search.limit} :
          LET messages == get_chunk(search, search.offset, k)
          IN  IF EmptyChunk(messages)
              THEN search' = [search EXCEPT !.pc = "done", !.messages = messages,
                                            !.chunks = Append(@, messages)]
              ELSE IF Len(messages) = 0
              THEN search' = [search EXCEPT !.pc = "request", !.messages = messages,
                                            !.chunks = Append(@, messages),
                                            !.offset = NextOffset(@, messages)]
              ELSE search' = [search EXCEPT !.pc = "yielded", !.messages = messages,
                                            !.chunks = Append(@, messages),
                                            !.offset = NextOffset(@, messages),
                                            !.i = 1,
                                            !.yielded = Append(@, messages[1])]
    /\ UNCHANGED <<flt, update, orig, me, phase, stack, ret, log, result, first>>

\* the consumer asks for the next message: count the one just yielded,
\* then return, yield the next of the chunk, or go for another chunk
Resume ==
    /\ search.pc = "yielded"
    /\ LET current == search.current + 1
       IN  IF Exhausted(current, search.total)
           THEN search' = [search EXCEPT !.pc = "done", !.current = current]
           ELSE IF search.i < Len(search.messages)
           THEN search' = [search EXCEPT !.current = current, !.i = @ + 1,
                                         !.yielded = Append(@, search.messages[search.i + 1])]
           ELSE search' = [search EXCEPT !.pc = "request", !.current = current]
    /\ UNCHANGED <<flt, update, orig, me, phase, stack, ret, log, result, first>>

NextSearch ==
    \/ SearchStart
    \/ Request
    \/ Response
    \/ Resume

\* the consumer keeps iterating and the server keeps answering
SpecSearch == InitSearch /\ [][NextSearch]_vars /\ WF_vars(NextSearch)


-----------------------------------------------------------------------------
(* Claims about search_messages, on SpecSearch.                            *)

RECURSIVE Flat(_)
\* the messages of a sequence of chunks, in the order they came
Flat(chunks) ==
    IF chunks = <<>> THEN <<>> ELSE Head(chunks) \o Flat(Tail(chunks))

\* abs(limit) or (1 << 31) - 1, from the caller's argument
StatedTotal ==
    IF search.arg_limit = 0 THEN NoLimit
    ELSE IF search.arg_limit < 0 THEN -search.arg_limit ELSE search.arg_limit

Searching == phase = "search" /\ search.pc # "new"

\* C22: search_messages yields at most |limit| messages when limit is not
\* zero, in the order the chunks return them; with limit 0 the cap is
\* 2^31 - 1 and every message of every chunk is yielded until a chunk
\* comes back empty.
C22_YieldsUpToLimit ==
    Searching =>
        /\ Len(search.yielded) <= StatedTotal
        /\ search.arg_limit = 0 => search.total = 2147483647
        /\ Len(search.yielded) <= Len(Flat(search.chunks))
        /\ search.yielded = SubSeq(Flat(search.chunks), 1, Len(search.yielded))
        /\ (search.arg_limit = 0 /\ search.pc \in {"request", "await", "done"}) =>
               search.yielded = Flat(search.chunks)
        /\ (search.arg_limit = 0 /\ search.pc = "done") =>
               /\ search.chunks # <<>>
               /\ search.chunks[Len(search.chunks)] = <<>>

\* a limit of 120 is reached in the middle of the second chunk
C22_Witness ==
    /\ Searching
    /\ search.pc = "done"
    /\ search.arg_limit = ChunkSize + 20
    /\ Len(search.yielded) = ChunkSize + 20
    /\ Len(search.chunks) = 2
    /\ Len(Flat(search.chunks)) > Len(search.yielded)


\* the number of messages of the first n chunks
ReturnedBy(n) == Len(Flat(SubSeq(search.chunks, 1, n)))

StopsAtOnce ==
    Searching =>
        /\ \A k \in 2..Len(search.requests) :
              /\ search.chunks[k - 1] # <<>>
              /\ ReturnedBy(k - 1) < StatedTotal
        /\ (search.chunks # <<>> /\ search.chunks[Len(search.chunks)] = <<>>) =>
               search.pc = "done"
        /\ Len(search.yielded) = StatedTotal => search.pc \in {"yielded", "done"}
        /\ search.pc = "done" =>
               /\ Len(search.requests) = Len(search.chunks)
               /\ \/ search.chunks[Len(search.chunks)] = <<>>
                  \/ Len(search.yielded) = StatedTotal

\* C27: search_messages makes no further chunk request once a chunk has
\* come back empty or the total-th message has been yielded, and, with a
\* server that ends up returning an empty chunk or a non-zero limit, a
\* generator that is iterated always returns.
C27_StopsAndTerminates ==
    /\ []StopsAtOnce
    /\ <>(phase = "search" => search.pc = "done")

\* the third chunk of an unlimited search is empty and ends it
C27_Witness ==
    /\ Searching
    /\ search.pc = "done"
    /\ search.arg_limit = 0
    /\ Len(search.requests) = 3
    /\ search.chunks[3] = <<>>
    /\ Len(search.yielded) = search.stored

====
